---------------------------- MODULE Spec2Model ----------------------------
(***************************************************************************)
(* Graphical soundscapes (src/graphical_soundscapes/gs_utils.py).          *)
(*                                                                         *)
(* Two entry points are modelled:                                          *)
(*   - main's "spectrogram_local_max" operation on one recording           *)
(*     (specification SpecPeaks), and                                      *)
(*   - graphical_soundscape over a table of recordings (specification      *)
(*     Spec): input_validation, the per-recording loop, the hour column    *)
(*     and the group-by-hour mean.                                         *)
(*                                                                         *)
(* Spectrogram values are decibel levels quantised to three levels, level  *)
(* 0 being the floor power2dB clips to.  Sample rates are given in units of *)
(* nperseg Hz, so a rate is also the bin width of the frequency axis that  *)
(* sound.spectrogram builds from it.  Densities and means are exact        *)
(* fractions <<p, q>> in lowest terms; NaN is the fraction <<0, 0>>.       *)
(***************************************************************************)
EXTENDS Integers, Sequences, FiniteSets

VARIABLES
    pc,             \* control position of the running entry point
    data_input,     \* graphical_soundscape's first argument (its kind)
    target_fs,      \* config: target sample rate
    min_distance,   \* config: minimum separation of peaks
    threshold_abs,  \* config: <<>> for None, <<v>> for the value v
    df,             \* the table input_validation returned
    idx,            \* number of rows of df the loop has processed
    fs,             \* native sample rate of the recording last loaded
    Sxx,            \* its spectrogram in dB, a matrix Sxx[f][t]
    tn,             \* its time axis
    fn,             \* its frequency axis
    peak_time,      \* first array returned by spectrogram_local_max
    peak_freq,      \* second array returned by spectrogram_local_max
    res,            \* the DataFrame the loop accumulates
    result,         \* the value returned
    error           \* the exception raised, "none" while there is none

vars == <<pc, data_input, target_fs, min_distance, threshold_abs, df, idx,
          fs, Sxx, tn, fn, peak_time, peak_freq, res, result, error>>

----------------------------------------------------------------------------
(* Bounds of the model. *)

NumFreq == 5            \* frequency bins of a spectrogram (nperseg/2 + 1)
NumTime == 6            \* time frames of a spectrogram
MaxMinDistance == 2     \* min_distance ranges over 1..MaxMinDistance
MaxRecordings == 2      \* rows of the input table

(* The values the inputs are drawn from. *)
Levels == {0, 1, 2}     \* dB levels: the floor, a middle level, the top
Rates == {1, 2}         \* native sample rates, in units of nperseg Hz
TargetRates == {2}      \* the configured target_fs, in the same units
MinDistances == 1 .. MaxMinDistance
None == <<>>
NoError == <<"none", 0>>
Thresholds == {None, <<0>>, <<1>>}

----------------------------------------------------------------------------
(* Arithmetic helpers. *)

SetMax(S) == CHOOSE x \in S : \A y \in S : y <= x
SetMin(S) == CHOOSE x \in S : \A y \in S : x <= y
Abs(x) == IF x < 0 THEN -x ELSE x

RECURSIVE Gcd(_, _)
Gcd(a, b) == IF b = 0 THEN a ELSE Gcd(b, a % b)

NaN == <<0, 0>>
IsNaN(x) == x[2] = 0
Frac(p, q) == LET g == Gcd(p, q) IN <<p \div g, q \div g>>
FracAdd(x, y) == Frac(x[1] * y[2] + y[1] * x[2], x[2] * y[2])
FracDiv(x, n) == Frac(x[1], x[2] * n)
FracLeq(x, y) == x[1] * y[2] <= y[1] * x[2]

----------------------------------------------------------------------------
(* Spectrograms: maad.sound.spectrogram as called at lines 147 and 240. *)

NRows(S) == Len(S)
NCols(S) == Len(S[1])
Cells(S) == (1 .. NRows(S)) \X (1 .. NCols(S))
At(S, cell) == S[cell[1]][cell[2]]
MinOf(S) == SetMin({S[r][c] : r \in 1 .. NRows(S), c \in 1 .. NCols(S)})

\* The sample rate handed to sound.spectrogram: the native rate fs of the
\* file, although the signal has just been resampled to target_fs.
spectrogram_fs(native, target) == native

\* Frequency axis: bin k (from 0) lies at k * fs / nperseg.
FreqAxis(rate, nf) == [k \in 1 .. nf |-> (k - 1) * rate]
\* Time axis: frame j (from 0) lies at j hops of 1/fs seconds: <<j, fs>>.
TimeAxis(rate, nt) == [j \in 1 .. nt |-> <<j - 1, rate>>]

----------------------------------------------------------------------------
(* skimage.feature.peak_local_max as called at lines 93-95, with its       *)
(* defaults: exclude_border=True, footprint of side 2*min_distance+1,      *)
(* p_norm=inf, no limit on the number of peaks.                            *)

Max2(a, b) == IF a >= b THEN a ELSE b
Min2(a, b) == IF a <= b THEN a ELSE b
Chebyshev(a, b) == Max2(Abs(a[1] - b[1]), Abs(a[2] - b[2]))


\* image == maximum_filter(image) at one cell, the footprint having side
\* 2*md+1: mode "nearest" repeats edge values, so the maximum over the padded
\* window is the maximum over the part of it inside the image.
IsMaximum(S, cell, md) ==
    LET v == S[cell[1]][cell[2]]
    IN \A r \in Max2(1, cell[1] - md) .. Min2(NRows(S), cell[1] + md) :
          \A c \in Max2(1, cell[2] - md) .. Min2(NCols(S), cell[2] + md) :
             S[r][c] <= v

\* threshold_abs if given, else the image minimum.
GetThreshold(S, thr) == IF thr = None THEN MinOf(S) ELSE thr[1]

\* _get_peak_mask: cells equal to the maximum of their footprint and above
\* the threshold; an image every cell of which equals its maximum filter is
\* trivial and has no peak.
GetPeakMask(S, md, thr) ==
    LET threshold == GetThreshold(S, thr)
    IN IF md = 0 \/ Cardinality(Cells(S)) = 1
       THEN {c \in Cells(S) : At(S, c) > threshold}
       ELSE IF \A c \in Cells(S) : IsMaximum(S, c, md) THEN {}
       ELSE {c \in Cells(S) : At(S, c) > threshold /\ IsMaximum(S, c, md)}

\* _exclude_border with border width min_distance on every side.
ExcludeBorder(S, mask, md) ==
    {c \in mask : /\ md < c[1] /\ c[1] <= NRows(S) - md
                  /\ md < c[2] /\ c[2] <= NCols(S) - md}

\* argsort(-intensities, kind="stable") of np.nonzero's raster order.
Precedes(S, a, b) ==
    \/ At(S, a) > At(S, b)
    \/ /\ At(S, a) = At(S, b)
       /\ (a[1] < b[1] \/ (a[1] = b[1] /\ a[2] < b[2]))

RECURSIVE SortCoords(_, _)
SortCoords(S, set) ==
    IF set = {} THEN <<>>
    ELSE LET first == CHOOSE a \in set : \A b \in set \ {a} : Precedes(S, a, b)
         IN <<first>> \o SortCoords(S, set \ {first})

\* _ensure_spacing: walking the sorted coordinates, each one not yet
\* rejected rejects every other one strictly closer than spacing.
RECURSIVE Rejected(_, _, _, _)
Rejected(coord, spacing, i, rej) ==
    IF i > Len(coord) THEN rej
    ELSE IF i \in rej THEN Rejected(coord, spacing, i + 1, rej)
    ELSE Rejected(coord, spacing, i + 1,
             rej \cup {j \in (1 .. Len(coord)) \ {i} :
                          Chebyshev(coord[i], coord[j]) < spacing})

RECURSIVE Delete(_, _, _)
Delete(coord, rej, i) ==
    IF i > Len(coord) THEN <<>>
    ELSE (IF i \in rej THEN <<>> ELSE <<coord[i]>>) \o Delete(coord, rej, i + 1)

EnsureSpacing(coord, spacing) ==
    Delete(coord, Rejected(coord, spacing, 1, {}), 1)

\* The coordinates <<row, column>> of the peaks, highest first.
peak_local_max(S, md, thr) ==
    EnsureSpacing(SortCoords(S, ExcludeBorder(S, GetPeakMask(S, md, thr), md)), md)

----------------------------------------------------------------------------
(* spectrogram_local_max, lines 46-108 (display=False). *)

\* Lines 88-90: the validation that raises ValueError.
ThresholdRejected(S, thr) == thr /= None /\ thr[1] < MinOf(S)

\* Line 108: the peaks' coordinates read off the two axes.
PeakTimes(peaks, taxis) == [k \in 1 .. Len(peaks) |-> taxis[peaks[k][2]]]
PeakFreqs(peaks, faxis) == [k \in 1 .. Len(peaks) |-> faxis[peaks[k][1]]]

\* spectrogram_local_max not handing min_distance on to peak_local_max,
\* which then uses its default of 1.
LocalMaxDefaultDistance(S, taxis, faxis, md, thr) ==
    IF ThresholdRejected(S, thr)
    THEN [raised |-> TRUE, peak_time |-> <<>>, peak_freq |-> <<>>]
    ELSE LET peaks == peak_local_max(S, 1, thr)
         IN [raised |-> FALSE,
             peak_time |-> PeakTimes(peaks, taxis),
             peak_freq |-> PeakFreqs(peaks, faxis)]

spectrogram_local_max(S, taxis, faxis, md, thr) ==
    IF ThresholdRejected(S, thr)
    THEN [raised |-> TRUE, peak_time |-> <<>>, peak_freq |-> <<>>]
    ELSE LET peaks == peak_local_max(S, md, thr)
         IN [raised |-> FALSE,
             peak_time |-> PeakTimes(peaks, taxis),
             peak_freq |-> PeakFreqs(peaks, faxis)]

----------------------------------------------------------------------------
(* The recordings the model loads.  A spectrogram is a uniform background  *)
(* level with at most two cells off its outermost ring at other levels:    *)
(* enough for isolated peaks, tied neighbours, dips and flat images.       *)

MakeGrid(b, c1, l1, c2, l2) ==
    [r \in 1 .. NumFreq |->
        [c \in 1 .. NumTime |->
            IF <<r, c>> = c2 THEN l2 ELSE IF <<r, c>> = c1 THEN l1 ELSE b]]

InnerCells == (2 .. NumFreq - 1) \X (2 .. NumTime - 1)

Grids ==
    {MakeGrid(b, c1, l1, c2, l2) :
        b \in Levels, c1 \in InnerCells, l1 \in Levels,
        c2 \in InnerCells, l2 \in Levels}

----------------------------------------------------------------------------
(* main, operation "spectrogram_local_max" (lines 237-244). *)

PeaksInit ==
    /\ pc = "main"
    /\ data_input = "none"
    /\ target_fs \in TargetRates
    /\ min_distance \in MinDistances
    /\ threshold_abs \in Thresholds
    /\ df = <<>>
    /\ idx = 0
    /\ fs = 0
    /\ Sxx = <<>>
    /\ tn = <<>>
    /\ fn = <<>>
    /\ peak_time = <<>>
    /\ peak_freq = <<>>
    /\ res = <<>>
    /\ result = <<>>
    /\ error = NoError

\* Lines 238-241: load, resample, spectrogram, power2dB.
MainLoad ==
    /\ pc = "main"
    /\ \E native \in Rates, S \in Grids :
          /\ fs' = native
          /\ Sxx' = S
          /\ tn' = TimeAxis(spectrogram_fs(native, target_fs), NCols(S))
          /\ fn' = FreqAxis(spectrogram_fs(native, target_fs), NRows(S))
    /\ pc' = "local_max"
    /\ UNCHANGED <<data_input, target_fs, min_distance, threshold_abs, df, idx,
                   peak_time, peak_freq, res, result, error>>

\* Lines 242-244: spectrogram_local_max and the print of its result.
MainLocalMax ==
    /\ pc = "local_max"
    /\ LET r == spectrogram_local_max(Sxx, tn, fn, min_distance, threshold_abs)
       IN /\ peak_time' = r.peak_time
          /\ peak_freq' = r.peak_freq
          /\ error' = IF r.raised THEN <<"ValueError", 90>> ELSE NoError
          /\ pc' = IF r.raised THEN "raised" ELSE "printed"
    /\ UNCHANGED <<data_input, target_fs, min_distance, threshold_abs, df, idx,
                   fs, Sxx, tn, fn, res, result>>

PeaksNext == MainLoad \/ MainLocalMax

SpecPeaks == PeaksInit /\ [][PeaksNext]_vars

----------------------------------------------------------------------------
(* Peak density of one recording, lines 156-162. *)

Range(f) == {f[i] : i \in DOMAIN f}

RECURSIVE SortSet(_)
SortSet(set) ==
    IF set = {} THEN <<>> ELSE <<SetMin(set)>> \o SortSet(set \ {SetMin(set)})

\* Line 157: np.unique(peak_freq, return_counts=True).
UniqueValues(pf) == SortSet(Range(pf))
UniqueCounts(pf) ==
    [k \in 1 .. Len(UniqueValues(pf)) |->
        Cardinality({i \in DOMAIN pf : pf[i] = UniqueValues(pf)[k]})]

\* Lines 159-160: the positions of fn that hold a value of freq_idx.
Indices(faxis, freq_idx) ==
    SortSet({j \in DOMAIN faxis : faxis[j] \in Range(freq_idx)})

\* CountPeak dividing by the number of frequency bins instead of len(tn).
CountPeakPerBin(pf, faxis, taxis) ==
    LET freq_idx == UniqueValues(pf)
        count_freq == UniqueCounts(pf)
        indices == Indices(faxis, freq_idx)
    IN [j \in DOMAIN faxis |->
           IF \E k \in DOMAIN indices : indices[k] = j
           THEN Frac(count_freq[CHOOSE k \in DOMAIN indices : indices[k] = j],
                     Len(faxis))
           ELSE <<0, 1>>]

\* Lines 158 and 161: zeros, then count_freq / len(tn) at those positions.
CountPeak(pf, faxis, taxis) ==
    LET freq_idx == UniqueValues(pf)
        count_freq == UniqueCounts(pf)
        indices == Indices(faxis, freq_idx)
    IN [j \in DOMAIN faxis |->
           IF \E k \in DOMAIN indices : indices[k] = j
           THEN Frac(count_freq[CHOOSE k \in DOMAIN indices : indices[k] = j],
                     Len(taxis))
           ELSE <<0, 1>>]

\* Line 162: pd.Series(index=fn, data=count_peak).
PeakDensity(pf, faxis, taxis) ==
    LET count_peak == CountPeak(pf, faxis, taxis)
    IN [f \in Range(faxis) |-> count_peak[CHOOSE j \in DOMAIN faxis : faxis[j] = f]]

----------------------------------------------------------------------------
(* The accumulated DataFrame, lines 140 and 167-171.  A frame is its set   *)
(* of column labels, its row labels and its rows, each row a function on   *)
(* the columns; the order of the columns is not modelled.                  *)

EmptyFrame == [columns |-> {}, index |-> <<>>, rows |-> <<>>]

Reindex(row, cols) == [f \in cols |-> IF f \in DOMAIN row THEN row[f] ELSE NaN]

\* Line 167: pd.concat([res, peak_density.to_frame().T]): the union of the
\* columns, NaN where a row has no value for a column.
Concat(frame, name, series) ==
    LET cols == frame.columns \cup DOMAIN series
    IN [columns |-> cols,
        index |-> Append(frame.index, name),
        rows |-> Append([i \in DOMAIN frame.rows |-> Reindex(frame.rows[i], cols)],
                        Reindex(series, cols))]

\* Line 169: df.time.str[0:2].astype(int): two characters read as a number.
Digits == <<"0", "1", "2", "3", "4", "5", "6", "7", "8", "9">>
IsDigit(ch) == \E i \in DOMAIN Digits : Digits[i] = ch
DigitValue(ch) == (CHOOSE i \in DOMAIN Digits : Digits[i] = ch) - 1
IsInt(tok) == \A i \in DOMAIN tok : IsDigit(tok[i])
AsInt(tok) == 10 * DigitValue(tok[1]) + DigitValue(tok[2])

\* Line 171: groupby("time").mean(): per hour label and column, the mean of
\* the values that are not NaN, NaN when there is none.
RECURSIVE FracSum(_, _)
FracSum(vals, i) ==
    IF i > Len(vals) THEN <<0, 1>> ELSE FracAdd(vals[i], FracSum(vals, i + 1))

RECURSIVE Select(_, _, _, _)
Select(rows, members, f, i) ==
    IF i > Len(rows) THEN <<>>
    ELSE (IF i \in members /\ ~IsNaN(rows[i][f]) THEN <<rows[i][f]>> ELSE <<>>)
            \o Select(rows, members, f, i + 1)

\* groupby("time").first() in place of mean().
First(vals) == IF vals = <<>> THEN NaN ELSE vals[1]

Mean(vals) == IF vals = <<>> THEN NaN ELSE FracDiv(FracSum(vals, 1), Len(vals))

GroupByMean(frame, time) ==
    [h \in Range(time) |->
        [f \in frame.columns |->
            Mean(Select(frame.rows, {i \in DOMAIN time : time[i] = h}, f, 1))]]

----------------------------------------------------------------------------
(* graphical_soundscape, lines 111-171. *)

\* The kinds of value data_input can be.
InputKinds == {"DataFrame", "directory", "csv", "other_str", "not_str"}

\* The first two characters of a time field: two hours of the day, a number
\* that is no hour, and text that is no number.
TimeTokens == {<<"0", "8">>, <<"1", "4">>, <<"2", "5">>, <<"x", "x">>}

\* The tables util.get_metadata_dir and pd.read_csv can produce: up to
\* MaxRecordings rows with path_audio and time; a csv file may lack the
\* column fname that line 142 reads.
Tables(fnames) ==
    UNION {[has_fname : fnames,
            rows : [1 .. n -> [path_audio : {"wav"}, time : TimeTokens]]] :
           n \in 0 .. MaxRecordings}

\* The spectrograms of the corpus: a background at the floor or the middle
\* level, and two neighbouring cells of the middle row, each at the
\* background or the top level.
Mid == (NumFreq + 1) \div 2
SampleGrids ==
    UNION {{MakeGrid(b, <<Mid, Mid>>, l1, <<Mid, Mid + 1>>, l2) :
               l1 \in {b, 2}, l2 \in {b, 2}} : b \in {0, 1}}

\* Lines 151-154: spectrogram_local_max on a spectrogram of the corpus with
\* the axes sound.spectrogram gave it, evaluated once per argument.
LocalMaxOf ==
    [md \in MinDistances |-> [thr \in Thresholds |-> [rate \in Rates |->
        [S \in SampleGrids |->
            spectrogram_local_max(S, TimeAxis(rate, NCols(S)),
                                  FreqAxis(rate, NRows(S)), md, thr)]]]]

Init ==
    /\ pc = "input_validation"
    /\ data_input \in InputKinds
    /\ target_fs \in TargetRates
    /\ min_distance \in MinDistances
    /\ threshold_abs \in Thresholds
    /\ df = <<>>
    /\ idx = 0
    /\ fs = 0
    /\ Sxx = <<>>
    /\ tn = <<>>
    /\ fn = <<>>
    /\ peak_time = <<>>
    /\ peak_freq = <<>>
    /\ res = <<>>
    /\ result = <<>>
    /\ error = NoError

\* An exception leaves the entry point: its type and the line raising it.
Raise(exception, line) ==
    /\ error' = <<exception, line>>
    /\ pc' = "raised"

\* Lines 26-43 and 139-140.  A DataFrame passes the first test and reaches
\* "return df" with df never assigned, as does a string that is neither a
\* directory nor a csv file.
input_validation ==
    /\ pc = "input_validation"
    /\ CASE data_input = "DataFrame" -> Raise("UnboundLocalError", 43) /\ UNCHANGED <<df, res>>
         [] data_input = "other_str" -> Raise("UnboundLocalError", 43) /\ UNCHANGED <<df, res>>
         [] data_input = "not_str" -> Raise("ValueError", 42) /\ UNCHANGED <<df, res>>
         [] data_input = "directory" ->
               /\ df' \in Tables({TRUE})
               /\ res' = EmptyFrame
               /\ pc' = "loop"
               /\ UNCHANGED error
         [] data_input = "csv" ->
               /\ df' \in Tables(BOOLEAN)
               /\ res' = EmptyFrame
               /\ pc' = "loop"
               /\ UNCHANGED error
    /\ UNCHANGED <<data_input, target_fs, min_distance, threshold_abs, idx,
                   fs, Sxx, tn, fn, peak_time, peak_freq, result>>

\* Lines 141-167: one pass of the loop, on row idx + 1 of df.  The file it
\* loads is either unreadable or has a native rate and a spectrogram S.  The
\* model keeps the axes and the peaks of the recording last processed; its
\* spectrogram is the step's input and is not kept.
LoopBody(loadable, native, S) ==
    IF ~df.has_fname
    THEN Raise("AttributeError", 142)
         /\ UNCHANGED <<idx, fs, tn, fn, peak_time, peak_freq, res>>
    ELSE IF ~loadable
    THEN Raise("LoadError", 145)
         /\ UNCHANGED <<idx, fs, tn, fn, peak_time, peak_freq, res>>
    ELSE LET rate == spectrogram_fs(native, target_fs)
             taxis == TimeAxis(rate, NCols(S))
             faxis == FreqAxis(rate, NRows(S))
             found == LocalMaxOf[min_distance][threshold_abs][rate][S]
         IN /\ fs' = native
            /\ tn' = taxis
            /\ fn' = faxis
            /\ IF found.raised
               THEN Raise("ValueError", 90)
                    /\ UNCHANGED <<idx, peak_time, peak_freq, res>>
               ELSE /\ peak_time' = found.peak_time
                    /\ peak_freq' = found.peak_freq
                    /\ res' = Concat(res, df.rows[idx + 1].path_audio,
                                     PeakDensity(found.peak_freq, faxis, taxis))
                    /\ idx' = idx + 1
                    /\ UNCHANGED <<pc, error>>

Loop ==
    /\ pc = "loop"
    /\ idx < Len(df.rows)
    /\ \E loadable \in BOOLEAN, native \in Rates, S \in SampleGrids :
          LoopBody(loadable, native, S)
    /\ UNCHANGED <<data_input, target_fs, min_distance, threshold_abs, df,
                   Sxx, result>>

\* Lines 169-171: the hour column and the mean per hour.
TimeColumn(table) == [i \in DOMAIN table.rows |-> AsInt(table.rows[i].time)]

Return ==
    /\ pc = "loop"
    /\ idx = Len(df.rows)
    /\ IF \E i \in DOMAIN df.rows : ~IsInt(df.rows[i].time)
       THEN Raise("ValueError", 169) /\ UNCHANGED result
       ELSE /\ result' = GroupByMean(res, TimeColumn(df))
            /\ pc' = "returned"
            /\ UNCHANGED error
    /\ UNCHANGED <<data_input, target_fs, min_distance, threshold_abs, df, idx,
                   fs, Sxx, tn, fn, peak_time, peak_freq, res>>

Next == input_validation \/ Loop \/ Return

Spec == Init /\ [][Next]_vars

----------------------------------------------------------------------------
(* Properties. *)

Hours == [i \in DOMAIN df.rows |-> AsInt(df.rows[i].time)]
HourMembers(h) == {i \in DOMAIN df.rows : Hours[i] = h}

RECURSIVE SumOver(_, _)
SumOver(members, f) ==
    IF members = {} THEN <<0, 1>>
    ELSE LET i == CHOOSE j \in members : TRUE
         IN FracAdd(res.rows[i][f], SumOver(members \ {i}, f))

\* C1: the returned matrix has exactly one row per hour label occurring in
\* the corpus, and its cell at (hour, frequency) is the arithmetic mean of
\* that frequency's density over all the recordings captured in that hour.
C1_HourMeans ==
    pc = "returned" =>
        /\ DOMAIN result = Range(Hours)
        /\ \A h \in DOMAIN result : \A f \in res.columns :
              /\ \A i \in HourMembers(h) : ~IsNaN(res.rows[i][f])
              /\ result[h][f] =
                    FracDiv(SumOver(HourMembers(h), f), Cardinality(HourMembers(h)))

\* C2: whenever threshold_abs is equal to or below the spectrogram's minimum,
\* spectrogram_local_max raises and returns no peaks.
C2_ThresholdAtOrBelowMinRaises ==
    (/\ pc \in {"printed", "raised"}
     /\ threshold_abs /= None
     /\ threshold_abs[1] <= MinOf(Sxx))
        => /\ pc = "raised"
           /\ error = <<"ValueError", 90>>
           /\ peak_time = <<>>
           /\ peak_freq = <<>>

\* C3: a recording whose audio file cannot be loaded does not abort the
\* run: the load error never leaves graphical_soundscape.
C3_UnreadableFileSkipped ==
    ~(pc = "raised" /\ error = <<"LoadError", 145>>)

\* C4: for a DataFrame argument input_validation returns the table, so no
\* exception leaves input_validation.
C4_DataFrameAccepted ==
    (data_input = "DataFrame" /\ pc = "raised") => error[2] \notin {42, 43}

\* C5: the density row of the recording last processed is indexed by the
\* whole frequency axis fn, and its value at a bin is the number of peaks
\* whose frequency is that bin divided by len(tn): 0 where there is none.
PeaksAt(f) == Cardinality({i \in DOMAIN peak_freq : peak_freq[i] = f})

C5_DensityRow ==
    (pc \in {"loop", "returned"} /\ idx > 0) =>
        LET row == res.rows[idx]
        IN /\ {f \in res.columns : ~IsNaN(row[f])} = Range(fn)
           /\ \A k \in DOMAIN fn :
                 /\ row[fn[k]] = Frac(PeaksAt(fn[k]), Len(tn))
                 /\ PeaksAt(fn[k]) = 0 => row[fn[k]] = <<0, 1>>

\* A recording with two peaks in one frequency bin has been processed.
C5_Witness ==
    /\ pc = "loop"
    /\ idx > 0
    /\ \E k \in DOMAIN fn : PeaksAt(fn[k]) = 2 /\ res.rows[idx][fn[k]] = Frac(2, NumTime)

\* C6: no two peaks spectrogram_local_max returns are closer than
\* min_distance cells in raw index space.  The distance is the larger of the
\* row and the column difference, the smallest of the usual distances.
PeakIndex(k) ==
    <<CHOOSE r \in DOMAIN fn : fn[r] = peak_freq[k],
      CHOOSE c \in DOMAIN tn : tn[c] = peak_time[k]>>

C6_MinDistanceApart ==
    pc = "printed" =>
        \A i \in DOMAIN peak_freq : \A j \in DOMAIN peak_freq :
            i /= j => Chebyshev(PeakIndex(i), PeakIndex(j)) >= min_distance

\* Two local maxima off the border lay closer than min_distance, and peaks
\* were returned.
C6_Witness ==
    /\ pc = "printed"
    /\ peak_freq /= <<>>
    /\ \E a \in Cells(Sxx) : \E b \in Cells(Sxx) :
          /\ a /= b
          /\ Chebyshev(a, b) < min_distance
          /\ {a, b} \subseteq
                ExcludeBorder(Sxx, GetPeakMask(Sxx, min_distance, threshold_abs),
                              min_distance)

\* C7: the returned matrix is the same for every order of the recordings.
\* The density row of a recording depends on its file and the configuration
\* alone, so a permuted table yields the same rows and hours, permuted.
SeriesOf(i) ==
    [f \in {c \in res.columns : ~IsNaN(res.rows[i][c])} |-> res.rows[i][f]]

RECURSIVE ConcatAll(_, _)
ConcatAll(p, k) ==
    IF k = 0 THEN EmptyFrame
    ELSE Concat(ConcatAll(p, k - 1), res.index[p[k]], SeriesOf(p[k]))

Permutations(n) ==
    {p \in [1 .. n -> 1 .. n] : \A i \in 1 .. n : \A j \in 1 .. n : p[i] = p[j] => i = j}

C7_OrderInvariant ==
    pc = "returned" =>
        \A p \in Permutations(idx) :
            GroupByMean(ConcatAll(p, idx), [k \in 1 .. idx |-> Hours[p[k]]]) = result

\* Two recordings of one hour with different density rows were aggregated.
C7_Witness ==
    /\ pc = "returned"
    /\ \E i \in DOMAIN res.rows : \E j \in DOMAIN res.rows :
          /\ Hours[i] = Hours[j]
          /\ res.rows[i] /= res.rows[j]
          /\ \E f \in res.columns :
                ~IsNaN(res.rows[i][f]) /\ ~IsNaN(res.rows[j][f])
                    /\ res.rows[i][f] /= res.rows[j][f]

\* C8: a recording whose time field does not start with an hour 00-23 is
\* skipped: it raises nothing, and every row label of the matrix is an hour.
C8_MalformedHourSkipped ==
    /\ ~(pc = "raised" /\ error = <<"ValueError", 169>>)
    /\ pc = "returned" => DOMAIN result \subseteq 0 .. 23

\* C9: every value of every density row lies in [0, 1], and so does every
\* cell of the returned matrix.
InUnit(x) == ~IsNaN(x) /\ 0 <= x[1] /\ x[1] <= x[2]

C9_UnitInterval ==
    /\ pc \in {"loop", "returned"} =>
          \A i \in DOMAIN res.rows : \A f \in DOMAIN SeriesOf(i) : InUnit(SeriesOf(i)[f])
    /\ pc = "returned" =>
          \A h \in DOMAIN result : \A f \in DOMAIN result[h] : InUnit(result[h][f])

\* C10: the frequency axis of every recording has bin width
\* target_fs / nperseg whatever the file's native rate, so all density rows
\* have the same frequency columns.
C10_TargetRateAxis ==
    /\ fn /= <<>> => fn = FreqAxis(target_fs, Len(fn))
    /\ pc \in {"loop", "returned"} =>
          \A i \in DOMAIN res.rows : DOMAIN SeriesOf(i) = res.columns

\* C11: for a flat spectrogram (every cell the same value) and a
\* threshold_abs below that value, spectrogram_local_max raises nothing and
\* emits one peak, or several that are pairwise at least min_distance apart,
\* and never one peak per cell.
IsFlat(S) == \A cell \in Cells(S) : At(S, cell) = S[1][1]

C11_FlatSpectrogramOnePeak ==
    (/\ pc \in {"printed", "raised"}
     /\ IsFlat(Sxx)
     /\ threshold_abs /= None
     /\ threshold_abs[1] < Sxx[1][1]) =>
        /\ pc = "printed"
        /\ Len(peak_freq) >= 1
        /\ Len(peak_freq) < Cardinality(Cells(Sxx))
        /\ \A i \in DOMAIN peak_freq : \A j \in DOMAIN peak_freq :
              i /= j => Chebyshev(PeakIndex(i), PeakIndex(j)) >= min_distance

=============================================================================
